---- MODULE Spec2Model ----
(***************************************************************************)
(* Model of netplan's NetworkManager backend (src/nm.c).                   *)
(*                                                                         *)
(* A C string is a sequence of atoms.  Identifiers, SSIDs and interface    *)
(* names are sequences of single characters; every literal fragment of a   *)
(* printf format is one atom.  g_string_append* is concatenation, so two   *)
(* GStrings are byte-for-byte equal exactly when their sequences are.      *)
(* A NULL pointer is the empty sequence; no string of the input domain is  *)
(* empty.                                                                  *)
(***************************************************************************)
EXTENDS Integers, Sequences, FiniteSets, TLC

VARIABLES
    netdefs,      \* the definition table: id -> net_definition
    ambient,      \* the file-creation mask the process was started with
    umask,        \* the process file-creation mask
    orig_umask,   \* local of write_nm_conf_access_point
    pc,           \* position of the run
    todo,         \* ids the caller has not passed to write_nm_conf yet
    cur,          \* id of the definition being rendered, or NULL
    aps_left,     \* access points the iterator of write_nm_conf has not returned
    buf,          \* (path, content, ssid) handed to g_string_free_to_file
    writes,       \* the completed calls of g_string_free_to_file, in order
    conf_file,    \* content of conf.d/ubuntu-network.conf, NULL if absent
    rules_file,   \* content of rules.d/90-ubuntu-network.rules, NULL if absent
    udev_rules,   \* the global GString* udev_rules
    exit_status,  \* -1 while running
    enc_in,       \* encoder harness: the definition handed to the encoder
    enc_out       \* encoder harness: NULL, or the result of the encoder

vars == <<netdefs, ambient, umask, orig_umask, pc, todo, cur, aps_left, buf,
          writes, conf_file, rules_file, udev_rules, exit_status, enc_in, enc_out>>

runVars == <<netdefs, ambient, umask, orig_umask, pc, todo, cur, aps_left, buf,
             writes, conf_file, rules_file, udev_rules, exit_status>>

NULL == <<>>

(***************************************************************************)
(* Bounds and input domains.                                               *)
(***************************************************************************)
MaxAps == 2

ND_ETHERNET == "ND_ETHERNET"
ND_WIFI == "ND_WIFI"
ND_BRIDGE == "ND_BRIDGE"
NetdefTypes == {ND_ETHERNET, ND_WIFI, ND_BRIDGE}

\* def->type >= ND_VIRTUAL
IsVirtual(type) == type \notin {ND_ETHERNET, ND_WIFI}

BACKEND_NM == "BACKEND_NM"
BACKEND_NETWORKD == "BACKEND_NETWORKD"
Backends == {BACKEND_NM, BACKEND_NETWORKD}

WIFI_MODE_INFRASTRUCTURE == "WIFI_MODE_INFRASTRUCTURE"
WIFI_MODE_ADHOC == "WIFI_MODE_ADHOC"
WIFI_MODE_AP == "WIFI_MODE_AP"

RestrictiveMask == 63    \* 077

AmbientMasks == {18, 2}  \* 022, 002

Ids == { <<"a">>, <<"a", "-", "b">> }
Ssids == { <<"b">>, <<"b", "-", "b">>, <<"b", " ">> }
Macs == { <<"00:11:22:33:44:55">> }
Drivers == { <<"ixgbe">>, <<"e1000">> }
OriginalNames == { <<"e", "0">>, <<"e", "*">> }
SetNames == { <<"l", "a", "n">> }
Passwords == { <<"s3cret">> }

Opt(S) == S \cup {NULL}

Matches == [mac : Opt(Macs), driver : Opt(Drivers), original_name : Opt(OriginalNames)]

NoMatch == [mac |-> NULL, driver |-> NULL, original_name |-> NULL]

\* the NULL wifi_access_point pointer and the NULL access_points table
NoAp == [ssid |-> NULL, mode |-> "none", password |-> NULL]
NoAccessPoints == {}

(***************************************************************************)
(* Match Specifier Encoder.                                                *)
(***************************************************************************)
Appended(s) == [abort |-> FALSE, s |-> s]
Aborted(s) == [abort |-> TRUE, s |-> s]

\* the encoder with the name of a virtual device taken from its match like
\* a physical one's
netdef_match_name_from_match(s, def) ==
    IF ~(def.match.driver = NULL \/ def.set_name # NULL)
    THEN Aborted(s)
    ELSE IF def.match.mac # NULL
    THEN Appended(s \o <<"mac:">> \o def.match.mac)
    ELSE IF def.match.original_name # NULL \/ def.set_name # NULL \/ IsVirtual(def.type)
    THEN Appended(s \o <<"interface-name:">> \o
                  (IF def.set_name # NULL THEN def.set_name
                   ELSE IF def.match.original_name # NULL THEN def.match.original_name
                   ELSE <<"(null)">>))
    ELSE IF def.type = ND_ETHERNET
    THEN Appended(s \o <<"type:ethernet">>)
    ELSE Aborted(s)

\* the encoder with the name test ahead of the MAC test
netdef_match_name_first(s, def) ==
    IF ~(def.match.driver = NULL \/ def.set_name # NULL)
    THEN Aborted(s)
    ELSE IF def.match.original_name # NULL \/ def.set_name # NULL \/ IsVirtual(def.type)
    THEN Appended(s \o <<"interface-name:">> \o
                  (IF IsVirtual(def.type) THEN def.id
                   ELSE IF def.set_name # NULL THEN def.set_name
                   ELSE def.match.original_name))
    ELSE IF def.match.mac # NULL
    THEN Appended(s \o <<"mac:">> \o def.match.mac)
    ELSE IF def.type = ND_ETHERNET
    THEN Appended(s \o <<"type:ethernet">>)
    ELSE Aborted(s)

g_string_append_netdef_match(s, def) ==
    IF ~(def.match.driver = NULL \/ def.set_name # NULL)
    THEN Aborted(s)
    ELSE IF def.match.mac # NULL
    THEN Appended(s \o <<"mac:">> \o def.match.mac)
    ELSE IF def.match.original_name # NULL \/ def.set_name # NULL \/ IsVirtual(def.type)
    THEN Appended(s \o <<"interface-name:">> \o
                  (IF IsVirtual(def.type) THEN def.id
                   ELSE IF def.set_name # NULL THEN def.set_name
                   ELSE def.match.original_name))
    ELSE IF def.type = ND_ETHERNET
    THEN Appended(s \o <<"type:ethernet">>)
    ELSE Aborted(s)

(***************************************************************************)
(* Per-definition renderer.                                                *)
(***************************************************************************)
type_str(type) ==
    CASE type = ND_ETHERNET -> "ethernet"
      [] type = ND_WIFI -> "wifi"
      [] type = ND_BRIDGE -> "bridge"

wifi_mode_str(mode) ==
    CASE mode = WIFI_MODE_INFRASTRUCTURE -> "infrastructure"
      [] mode = WIFI_MODE_ADHOC -> "adhoc"
      [] mode = WIFI_MODE_AP -> "ap"

\* strpbrk with the asterisk missing from the accept set
HasGlob_no_asterisk(name) == \E i \in 1..Len(name) : name[i] \in {"[", "]", "?"}

\* strpbrk(name, "*[]?") != NULL
HasGlob(name) == \E i \in 1..Len(name) : name[i] \in {"*", "[", "]", "?"}

\* the characters g_uri_escape_string leaves alone when no reserved
\* characters are allowed: ALPHA / DIGIT / "-" / "." / "_" / "~"
Unreserved == {"a", "b", "c", "e", "l", "n", "0", "2", "5", "-", ".", "_", "~"}

\* the two upper-case hex digits of the byte
PercentCode(c) ==
    CASE c = " " -> <<"2", "0">>
      [] c = "%" -> <<"2", "5">>
      [] c = "*" -> <<"2", "A">>
      [] c = "/" -> <<"2", "F">>

\* an escape that drops the characters it should percent-encode
RECURSIVE uri_escape_dropping(_)
uri_escape_dropping(str) ==
    IF str = <<>> THEN <<>>
    ELSE (IF Head(str) \in Unreserved THEN <<Head(str)>> ELSE <<>>)
         \o uri_escape_dropping(Tail(str))

RECURSIVE g_uri_escape_string(_)
g_uri_escape_string(str) ==
    IF str = <<>> THEN <<>>
    ELSE (IF Head(str) \in Unreserved THEN <<Head(str)>>
          ELSE <<"%">> \o PercentCode(Head(str)))
         \o g_uri_escape_string(Tail(str))

ConnDir == "run/NetworkManager/system-connections/ubuntu-network-"

\* ap = NoAp (the NULL pointer) for a non-wifi definition, else a
\* wifi_access_point.
\* The result is the state at line 171: exit(1) taken, or the GString s and
\* conf_path about to be written.
write_nm_conf_access_point(def, ap) ==
    LET s1 == <<"[connection]\nid=ubuntu-network-">> \o def.id
        s2 == IF ap # NoAp THEN s1 \o <<"-">> \o ap.ssid ELSE s1
        s3 == s2 \o <<"\ntype=", type_str(def.type), "\n">>
        glob == /\ ~IsVirtual(def.type)
                /\ def.set_name = NULL
                /\ def.has_match
                /\ def.match.original_name # NULL
                /\ HasGlob(def.match.original_name)
        s4 == IF ~IsVirtual(def.type)
              THEN IF def.set_name # NULL
                   THEN s3 \o <<"interface-name=">> \o def.set_name \o <<"\n">>
                   ELSE IF ~def.has_match
                   THEN s3 \o <<"interface-name=">> \o def.id \o <<"\n">>
                   ELSE IF def.match.original_name # NULL
                   THEN s3 \o <<"interface-name=">> \o def.match.original_name \o <<"\n">>
                   ELSE s3
              ELSE s3 \o <<"interface-name=">> \o def.id \o <<"\n">>
        s5 == IF def.bridge # NULL
              THEN s4 \o <<"slave-type=bridge\nmaster=">> \o def.bridge \o <<"\n">>
              ELSE s4
        s6 == IF ~IsVirtual(def.type)
              THEN s5 \o <<"\n[ethernet]\nwake-on-lan=",
                           IF def.wake_on_lan THEN "1" ELSE "0", "\n">>
              ELSE s5
        s7 == IF ~IsVirtual(def.type) /\ def.set_name = NULL /\ def.match.mac # NULL
              THEN s6 \o <<IF def.type = ND_ETHERNET THEN "\n[802-3-ethernet]\n"
                           ELSE "\n[802-11-wireless]\n">>
                      \o <<"mac-address=">> \o def.match.mac \o <<"\n">>
              ELSE s6
        s8 == IF def.dhcp4 THEN s7 \o <<"\n[ipv4]\nmethod=auto\n">> ELSE s7
        s9 == IF ap # NoAp /\ ap.mode = WIFI_MODE_AP
              THEN s8 \o <<"\n[ipv4]\nmethod=shared\n">> ELSE s8
        s10 == IF ap # NoAp
               THEN s9 \o <<"\n[wifi]\nssid=">> \o ap.ssid
                       \o <<"\nmode=", wifi_mode_str(ap.mode), "\n">>
               ELSE s9
        s11 == IF ap # NoAp /\ ap.password # NULL
               THEN s10 \o <<"\n[wifi-security]\nkey-mgmt=wpa-psk\npsk=">>
                        \o ap.password \o <<"\n">>
               ELSE s10
        conf_path == IF ap # NoAp
                     THEN <<ConnDir>> \o def.id \o <<"-">> \o g_uri_escape_string(ap.ssid)
                     ELSE <<ConnDir>> \o def.id
    IN  IF glob
        THEN [exit |-> TRUE, path |-> NULL, content |-> NULL]
        ELSE [exit |-> FALSE, path |-> conf_path, content |-> s11]

(***************************************************************************)
(* Ownership arbitration and the aggregate artifacts.                      *)
(***************************************************************************)
UnmanagedHeader == "[keyfile]\n# devices managed by networkd\nunmanaged-devices+="
RulePrefix == "ACTION==\"add|change\", SUBSYSTEM==\"net\", ENV{ID_NET_DRIVER}==\""
RuleSuffix == "\", ENV{NM_UNMANAGED}=\"1\"\n"

\* the callback without its test of the backend
nd_append_any_backend(nd, acc) ==
    IF acc.abort
    THEN acc
    ELSE IF nd.match.driver # NULL
    THEN [acc EXCEPT !.udev_rules = @ \o <<RulePrefix>> \o nd.match.driver \o <<RuleSuffix>>]
    ELSE LET r == g_string_append_netdef_match(acc.str, nd)
         IN  IF r.abort
             THEN [acc EXCEPT !.abort = TRUE]
             ELSE [acc EXCEPT !.str = r.s \o <<",">>]

\* the callback skipping a driver that already has a rule
nd_append_once_per_driver(nd, acc) ==
    IF acc.abort \/ nd.backend = BACKEND_NM
    THEN acc
    ELSE IF nd.match.driver # NULL
    THEN IF \E i \in 1..(Len(acc.udev_rules) - Len(nd.match.driver)) :
                SubSeq(acc.udev_rules, i, i + Len(nd.match.driver) + 1)
                    = <<RulePrefix>> \o nd.match.driver \o <<RuleSuffix>>
         THEN acc
         ELSE [acc EXCEPT !.udev_rules = @ \o <<RulePrefix>> \o nd.match.driver \o <<RuleSuffix>>]
    ELSE LET r == g_string_append_netdef_match(acc.str, nd)
         IN  IF r.abort
             THEN [acc EXCEPT !.abort = TRUE]
             ELSE [acc EXCEPT !.str = r.s \o <<",">>]

\* acc = [str, udev_rules, abort]: the GString passed as user data, the
\* global udev_rules and whether an assertion has aborted the process
nd_append_non_nm_ids(nd, acc) ==
    IF acc.abort \/ nd.backend = BACKEND_NM
    THEN acc
    ELSE IF nd.match.driver # NULL
    THEN [acc EXCEPT !.udev_rules = @ \o <<RulePrefix>> \o nd.match.driver \o <<RuleSuffix>>]
    ELSE LET r == g_string_append_netdef_match(acc.str, nd)
         IN  IF r.abort
             THEN [acc EXCEPT !.abort = TRUE]
             ELSE [acc EXCEPT !.str = r.s \o <<",">>]

\* g_hash_table_foreach(netdefs, nd_append_non_nm_ids, s), visiting the
\* table in the given order
RECURSIVE g_hash_table_foreach(_, _, _)
g_hash_table_foreach(table, order, acc) ==
    IF order = <<>> THEN acc
    ELSE g_hash_table_foreach(table, Tail(order),
                              nd_append_non_nm_ids(table[Head(order)], acc))

\* what write_nm_conf_finish hands to g_string_free_to_file, for one
\* iteration order of the table: conf is NULL when s is freed unwritten
write_nm_conf_finish(table, rules0, order) ==
    IF Cardinality(DOMAIN table) = 0
    THEN [abort |-> FALSE, conf |-> NULL, udev_rules |-> rules0]
    ELSE LET acc == g_hash_table_foreach(table, order,
                        [str |-> <<UnmanagedHeader>>, udev_rules |-> rules0, abort |-> FALSE])
         IN  [abort |-> acc.abort,
              conf |-> IF Len(acc.str) > Len(<<UnmanagedHeader>>) THEN acc.str ELSE NULL,
              udev_rules |-> acc.udev_rules]

\* the orders in which a hash table with these keys can be iterated
Orders(S) == {o \in [1..Cardinality(S) -> S] : \A i, j \in DOMAIN o : o[i] = o[j] => i = j}

(***************************************************************************)
(* The input: a validated definition table.                                *)
(***************************************************************************)
Def(id, type, backend, has_match, match, set_name, bridge, dhcp4, wol, aps) ==
    [id |-> id, type |-> type, backend |-> backend, has_match |-> has_match,
     match |-> match, set_name |-> set_name, bridge |-> bridge, dhcp4 |-> dhcp4,
     wake_on_lan |-> wol, access_points |-> aps]

\* has_match is set as soon as the definition has a match mapping, which
\* may be empty
MatchCases ==
    {[has_match |-> h, match |-> m] : h \in BOOLEAN, m \in Matches} \ 
    {[has_match |-> FALSE, match |-> m] : m \in Matches \ {NoMatch}}

AccessPoints ==
    {ap \in [ssid : Ssids, mode : {WIFI_MODE_INFRASTRUCTURE, WIFI_MODE_ADHOC, WIFI_MODE_AP},
             password : Opt(Passwords)] :
        \/ ap.ssid = <<"b">> /\ ap.mode = WIFI_MODE_AP /\ ap.password # NULL
        \/ ap.ssid = <<"b">> /\ ap.mode = WIFI_MODE_INFRASTRUCTURE /\ ap.password = NULL
        \/ ap.ssid = <<"b", "-", "b">> /\ ap.mode = WIFI_MODE_ADHOC /\ ap.password # NULL
        \/ ap.ssid = <<"b", " ">> /\ ap.mode = WIFI_MODE_AP /\ ap.password = NULL}

\* an access_points table: keyed by SSID, never empty
ApTables ==
    {T \in SUBSET AccessPoints :
        /\ Cardinality(T) \in 1..MaxAps
        /\ \A x, y \in T : x.ssid = y.ssid => x = y}

\* the match mappings of the definitions of a table: a match names a
\* driver or an interface name, not both
RunMatchCases ==
    {mc \in MatchCases : mc.match.driver = NULL \/ mc.match.original_name = NULL}

\* Ethernet definitions.  The fields only the renderer reads vary for the
\* definitions NetworkManager owns and that match nothing; the second driver
\* matters to the udev rules only.
EthDefs(id) ==
    {Def(id, ND_ETHERNET, BACKEND_NM, mc.has_match, mc.match, sn, NULL, TRUE, FALSE, NoAccessPoints) :
        mc \in {c \in RunMatchCases : c.match.driver # <<"e1000">>}, sn \in Opt(SetNames)}
    \cup
    {Def(id, ND_ETHERNET, BACKEND_NM, FALSE, NoMatch, NULL, br, dh, wol, NoAccessPoints) :
        br \in Opt({<<"b", "r", "0">>}), dh \in BOOLEAN, wol \in BOOLEAN}
    \cup
    {Def(id, ND_ETHERNET, BACKEND_NETWORKD, mc.has_match, mc.match, sn, NULL, TRUE, FALSE, NoAccessPoints) :
        mc \in RunMatchCases, sn \in Opt(SetNames)}

\* Wifi definitions: only NetworkManager supports wifi (nm.c:34-38)
WifiMatchCases ==
    {mc \in RunMatchCases : /\ mc.match.driver = NULL
                            /\ mc.match.mac = NULL \/ mc.match.original_name = NULL
                            /\ mc.has_match => mc.match.original_name # <<"e", "0">>
                            /\ mc.has_match => mc.match # NoMatch}

WifiDefs(id) ==
    {Def(id, ND_WIFI, BACKEND_NM, mc.has_match, mc.match, NULL, NULL, dh, FALSE, aps) :
        mc \in WifiMatchCases, dh \in BOOLEAN, aps \in ApTables}

BridgeDefs(id) ==
    {Def(id, ND_BRIDGE, b, FALSE, NoMatch, NULL, NULL, dh, FALSE, NoAccessPoints) :
        b \in Backends, dh \in BOOLEAN}

DefUniverse(id) == EthDefs(id) \cup WifiDefs(id) \cup BridgeDefs(id)

Tables ==
    UNION {{t \in [S -> UNION {DefUniverse(i) : i \in S}] : \A i \in S : t[i].id = i} :
           S \in SUBSET Ids}

\* the definitions the encoder is applied to on its own
EncUniverse ==
    {Def(id, ty, BACKEND_NETWORKD, mc.has_match, mc.match, sn, NULL, FALSE, FALSE, NoAccessPoints) :
        id \in Ids, ty \in NetdefTypes, mc \in MatchCases, sn \in Opt(SetNames)}

NoDef == Def(NULL, "none", "none", FALSE, NoMatch, NULL, NULL, FALSE, FALSE, NoAccessPoints)
NoOut == [abort |-> FALSE, s |-> NULL]
NoBuf == [path |-> NULL, content |-> NULL, ssid |-> NULL]

(***************************************************************************)
(* The run.                                                                *)
(***************************************************************************)
Init ==
    /\ netdefs \in Tables
    /\ ambient \in AmbientMasks
    /\ umask = ambient
    /\ orig_umask = ambient
    /\ pc = "main"
    /\ todo = DOMAIN netdefs
    /\ cur = NULL
    /\ aps_left = {}
    /\ buf = NoBuf
    /\ writes = <<>>
    /\ conf_file = NULL
    /\ rules_file = NULL
    /\ udev_rules = NULL
    /\ exit_status = -1
    /\ enc_in = NoDef
    /\ enc_out = NoOut

\* write_nm_conf_access_point up to line 172: either exit(1), or the
\* artifact is rendered and the mask is tightened for the write
EnterAccessPoint(def, ap) ==
    LET r == write_nm_conf_access_point(def, ap)
    IN  IF r.exit
        THEN /\ pc' = "exited"
             /\ exit_status' = 1
             /\ UNCHANGED <<umask, orig_umask, buf>>
        ELSE /\ pc' = "writing"
             /\ orig_umask' = umask
             /\ umask' = RestrictiveMask
             /\ buf' = [path |-> r.path, content |-> r.content, ssid |-> ap.ssid]
             /\ UNCHANGED exit_status

\* the caller passes one more definition of the table to write_nm_conf
WriteNmConf(id) ==
    /\ pc = "main"
    /\ id \in todo
    /\ todo' = todo \ {id}
    /\ LET def == netdefs[id]
       IN  IF def.backend # BACKEND_NM
           THEN UNCHANGED <<umask, orig_umask, pc, cur, aps_left, buf, exit_status>>
           ELSE IF def.match.driver # NULL /\ def.set_name = NULL
           THEN /\ pc' = "exited"
                /\ exit_status' = 1
                /\ UNCHANGED <<umask, orig_umask, cur, aps_left, buf>>
           ELSE IF def.type = ND_WIFI
           THEN /\ pc' = "ap_loop"
                /\ cur' = id
                /\ aps_left' = def.access_points
                /\ UNCHANGED <<umask, orig_umask, buf, exit_status>>
           ELSE /\ cur' = id
                /\ EnterAccessPoint(def, NoAp)
                /\ UNCHANGED aps_left
    /\ UNCHANGED <<netdefs, ambient, writes, conf_file, rules_file, udev_rules, enc_in, enc_out>>

\* g_hash_table_iter_next in write_nm_conf: the next access point, in the
\* table's order, or the end of the loop
IterNextAccessPoint ==
    /\ pc = "ap_loop"
    /\ IF aps_left = {}
       THEN /\ pc' = "main"
            /\ cur' = NULL
            /\ UNCHANGED <<umask, orig_umask, aps_left, buf, exit_status>>
       ELSE \E ap \in aps_left :
            /\ aps_left' = aps_left \ {ap}
            /\ EnterAccessPoint(netdefs[cur], ap)
            /\ UNCHANGED cur
    /\ UNCHANGED <<netdefs, ambient, todo, writes, conf_file, rules_file, udev_rules, enc_in, enc_out>>

\* g_string_free_to_file succeeds; the mask is restored (line 174)
WriteOk ==
    /\ pc = "writing"
    /\ writes' = Append(writes, [def |-> cur, ssid |-> buf.ssid, path |-> buf.path,
                                 content |-> buf.content, mask |-> umask])
    /\ umask' = orig_umask
    /\ buf' = NoBuf
    /\ IF netdefs[cur].type = ND_WIFI
       THEN pc' = "ap_loop" /\ UNCHANGED cur
       ELSE pc' = "main" /\ cur' = NULL
    /\ UNCHANGED <<netdefs, ambient, orig_umask, todo, aps_left, conf_file, rules_file,
                   udev_rules, exit_status, enc_in, enc_out>>

\* g_string_free_to_file cannot write the file: an I/O error is fatal to the run
WriteFail ==
    /\ pc = "writing"
    /\ pc' = "exited"
    /\ exit_status' = 1
    /\ UNCHANGED <<netdefs, ambient, umask, orig_umask, todo, cur, aps_left, buf, writes,
                   conf_file, rules_file, udev_rules, enc_in, enc_out>>

\* write_nm_conf_finish, called once after every definition was processed
Finish ==
    /\ pc = "main"
    /\ todo = {}
    /\ \E order \in Orders(DOMAIN netdefs) :
        LET r == write_nm_conf_finish(netdefs, udev_rules, order)
        IN  /\ udev_rules' = r.udev_rules
            /\ IF r.abort
               THEN /\ pc' = "aborted"
                    /\ exit_status' = 134
                    /\ UNCHANGED <<conf_file, rules_file>>
               ELSE /\ pc' = "done"
                    /\ exit_status' = 0
                    /\ conf_file' = r.conf
                    /\ rules_file' = r.udev_rules
    /\ UNCHANGED <<netdefs, ambient, umask, orig_umask, todo, cur, aps_left, buf, writes,
                   enc_in, enc_out>>

\* write_nm_conf_finish when one of its two writes fails
FinishIoError ==
    /\ pc = "main"
    /\ todo = {}
    /\ \E order \in Orders(DOMAIN netdefs) :
        LET r == write_nm_conf_finish(netdefs, udev_rules, order)
        IN  /\ ~r.abort
            /\ udev_rules' = r.udev_rules
            /\ \/ r.conf # NULL /\ conf_file' = NULL
               \/ r.udev_rules # NULL /\ conf_file' = r.conf
            /\ rules_file' = NULL
    /\ pc' = "exited"
    /\ exit_status' = 1
    /\ UNCHANGED <<netdefs, ambient, umask, orig_umask, todo, cur, aps_left, buf, writes,
                   enc_in, enc_out>>

Next ==
    \/ \E id \in Ids : WriteNmConf(id)
    \/ IterNextAccessPoint
    \/ WriteOk
    \/ WriteFail
    \/ Finish
    \/ FinishIoError

Spec == Init /\ [][Next]_vars

(***************************************************************************)
(* The encoder on its own.                                                 *)
(***************************************************************************)
InitEnc ==
    /\ netdefs = <<>>
    /\ ambient \in AmbientMasks
    /\ umask = ambient
    /\ orig_umask = ambient
    /\ pc = "encoder"
    /\ todo = {}
    /\ cur = NULL
    /\ aps_left = {}
    /\ buf = NoBuf
    /\ writes = <<>>
    /\ conf_file = NULL
    /\ rules_file = NULL
    /\ udev_rules = NULL
    /\ exit_status = -1
    /\ enc_in \in EncUniverse
    /\ enc_out = NoOut

Encode ==
    /\ pc = "encoder"
    /\ enc_out = NoOut
    /\ enc_out' = g_string_append_netdef_match(<<UnmanagedHeader>>, enc_in)
    /\ UNCHANGED <<runVars, enc_in>>

NextEnc == Encode

SpecEnc == InitEnc /\ [][NextEnc]_vars

(***************************************************************************)
(* Reading the artifacts back.                                             *)
(***************************************************************************)
Range(s) == {s[i] : i \in DOMAIN s}

Count(s, atom) == Cardinality({i \in DOMAIN s : s[i] = atom})

\* the pieces of s that end with the atom sep
RECURSIVE SplitAcc(_, _, _, _)
SplitAcc(s, sep, piece, out) ==
    IF s = <<>> THEN (IF piece = <<>> THEN out ELSE Append(out, piece))
    ELSE IF Head(s) = sep THEN SplitAcc(Tail(s), sep, <<>>, Append(out, piece))
    ELSE SplitAcc(Tail(s), sep, Append(piece, Head(s)), out)

Split(s, sep) == SplitAcc(s, sep, <<>>, <<>>)

\* the atoms of s between the first atom a and the next atom b after it
Between(s, a, b) ==
    LET i == CHOOSE i \in DOMAIN s : s[i] = a /\ \A k \in 1..(i - 1) : s[k] # a
        j == CHOOSE j \in (i + 1)..Len(s) : s[j] = b /\ \A k \in (i + 1)..(j - 1) : s[k] # b
    IN  SubSeq(s, i + 1, j - 1)

\* the specifiers listed after unmanaged-devices+=, in file order
ConfEntries(conf) == IF conf = NULL THEN <<>> ELSE Split(Tail(conf), ",")

\* the rule lines of the rules file, each without its closing fragment
RuleLines(rules) == Split(rules, RuleSuffix)

RuleOn(driver) == <<RulePrefix>> \o driver

NonNm == {id \in DOMAIN netdefs : netdefs[id].backend # BACKEND_NM}
NonNmDriver == {id \in NonNm : netdefs[id].match.driver # NULL}
NonNmOther == NonNm \ NonNmDriver

WritesOf(id) == {i \in DOMAIN writes : writes[i].def = id}

EncDone == enc_out # NoOut

(***************************************************************************)
(* Claims.                                                                 *)
(***************************************************************************)

\* C1 as stated: for a virtual-type definition with match.driver unset the
\* encoder appends exactly interface-name:<id>, whatever match.mac,
\* match.original_name and set_name are.
C1_VirtualAlwaysInterfaceName ==
    (EncDone /\ IsVirtual(enc_in.type) /\ enc_in.match.driver = NULL)
        => enc_out = Appended(<<UnmanagedHeader, "interface-name:">> \o enc_in.id)

\* C1 amended: for a virtual-type definition with match.driver and match.mac
\* unset the encoder appends exactly interface-name:<id>, whatever
\* match.original_name and set_name are.
C1_VirtualWithoutMacInterfaceName ==
    (EncDone /\ IsVirtual(enc_in.type) /\ enc_in.match.driver = NULL
             /\ enc_in.match.mac = NULL)
        => enc_out = Appended(<<UnmanagedHeader, "interface-name:">> \o enc_in.id)

C1_Witness ==
    /\ EncDone
    /\ IsVirtual(enc_in.type)
    /\ enc_in.match.driver = NULL
    /\ enc_in.match.mac = NULL
    /\ enc_in.match.original_name # NULL
    /\ enc_in.set_name # NULL
    /\ enc_out.s = <<UnmanagedHeader, "interface-name:">> \o enc_in.id

\* C2: for a definition with match.mac set, and match.driver unset or
\* set_name set, the encoder appends exactly mac:<match.mac>, also when
\* match.original_name or set_name are set; no interface-name: or type:
\* specifier is appended.
C2_MacTakesPrecedence ==
    (EncDone /\ enc_in.match.mac # NULL
             /\ (enc_in.match.driver = NULL \/ enc_in.set_name # NULL))
        => /\ enc_out = Appended(<<UnmanagedHeader, "mac:">> \o enc_in.match.mac)
           /\ Count(enc_out.s, "interface-name:") = 0
           /\ Count(enc_out.s, "type:ethernet") = 0

C2_Witness ==
    /\ EncDone
    /\ enc_in.match.mac # NULL
    /\ enc_in.match.original_name # NULL
    /\ enc_in.set_name # NULL
    /\ ~IsVirtual(enc_in.type)
    /\ enc_out.s = <<UnmanagedHeader, "mac:">> \o enc_in.match.mac

\* a NetworkManager-owned definition NetworkManager cannot express
ExpressivenessError(def) ==
    /\ def.backend = BACKEND_NM
    /\ \/ def.match.driver # NULL /\ def.set_name = NULL
       \/ /\ def.type \in {ND_ETHERNET, ND_WIFI}
          /\ def.set_name = NULL
          /\ def.has_match
          /\ def.match.original_name # NULL
          /\ \E i \in DOMAIN def.match.original_name :
                def.match.original_name[i] \in {"*", "[", "]", "?"}

\* C3: once write_nm_conf has been called on a NetworkManager-owned
\* definition with an expressiveness error, the run ends with exit status 1
\* and no connection artifact of that definition is ever written or about
\* to be written, also for a wifi definition with several access points.
C3_ExpressivenessErrorIsFatal ==
    \A id \in DOMAIN netdefs :
        ExpressivenessError(netdefs[id]) =>
            /\ WritesOf(id) = {}
            /\ ~(pc = "writing" /\ cur = id)
            /\ id \notin todo =>
                \/ pc = "exited" /\ exit_status = 1
                \/ /\ pc = "ap_loop"
                   /\ cur = id
                   /\ aps_left = netdefs[id].access_points

C3_Witness ==
    /\ pc = "exited"
    /\ exit_status = 1
    /\ \E id \in DOMAIN netdefs :
        /\ ExpressivenessError(netdefs[id])
        /\ netdefs[id].type = ND_WIFI
        /\ Cardinality(netdefs[id].access_points) >= 2
        /\ id \notin todo
        /\ cur = id
        /\ WritesOf(id) = {}

\* C4: a definition whose backend is not NetworkManager gets no connection
\* artifact, and after write_nm_conf_finish it is in exactly one exclusion:
\* one udev rule on its driver if match.driver is set, else its specifier in
\* the unmanaged-devices list (type:ethernet for an ethernet definition that
\* matches nothing).  NetworkManager's own definitions are in neither, so
\* the lists are as long as the definitions excluded each way.
C4_ExactlyOneExclusion ==
    /\ \A id \in NonNm : WritesOf(id) = {}
    /\ pc = "done" =>
        /\ \A id \in NonNmDriver :
                RuleOn(netdefs[id].match.driver) \in Range(RuleLines(rules_file))
        /\ \A id \in NonNmOther :
            /\ g_string_append_netdef_match(<<>>, netdefs[id]).s \in Range(ConfEntries(conf_file))
            /\ (/\ netdefs[id].type = ND_ETHERNET
                /\ netdefs[id].match = NoMatch
                /\ netdefs[id].set_name = NULL)
               => <<"type:ethernet">> \in Range(ConfEntries(conf_file))
        /\ Len(RuleLines(rules_file)) = Cardinality(NonNmDriver)
        /\ Len(ConfEntries(conf_file)) = Cardinality(NonNmOther)

C4_Witness ==
    /\ pc = "done"
    /\ \E i, j \in DOMAIN netdefs :
        /\ i \in NonNmDriver
        /\ j \in NonNmOther
        /\ netdefs[j].match = NoMatch
        /\ netdefs[j].type = ND_ETHERNET
        /\ netdefs[j].set_name = NULL
        /\ rules_file = RuleOn(netdefs[i].match.driver) \o <<RuleSuffix>>
        /\ conf_file = <<UnmanagedHeader, "type:ethernet", ",">>

\* C5 as stated: the rules artifact has as many rule lines as there are
\* distinct match.driver values among the definitions not owned by
\* NetworkManager.
C5_OneRulePerDistinctDriver ==
    pc = "done" =>
        Len(RuleLines(rules_file)) =
            Cardinality({netdefs[id].match.driver : id \in NonNmDriver})

\* C5 amended: the rules artifact is written exactly when some definition not
\* owned by NetworkManager has a driver match, it has one rule line per such
\* definition (two definitions naming the same driver yield two equal
\* lines), and the drivers its lines name are exactly their drivers.
C5_OneRulePerExcludedDefinition ==
    pc = "done" =>
        /\ (rules_file # NULL) <=> (NonNmDriver # {})
        /\ Len(RuleLines(rules_file)) = Cardinality(NonNmDriver)
        /\ Range(RuleLines(rules_file)) =
                {RuleOn(netdefs[id].match.driver) : id \in NonNmDriver}

C5_Witness ==
    /\ pc = "done"
    /\ Cardinality(NonNmDriver) = 2
    /\ Cardinality({netdefs[id].match.driver : id \in NonNmDriver}) = 1
    /\ Len(RuleLines(rules_file)) = 2

\* C6: for a fixed table both aggregate artifacts are byte-for-byte the same
\* for every order in which the table is iterated.
C6_AggregatesOrderIndependent ==
    pc = "done" =>
        \A o1, o2 \in Orders(DOMAIN netdefs) :
            /\ write_nm_conf_finish(netdefs, NULL, o1).conf
                 = write_nm_conf_finish(netdefs, NULL, o2).conf
            /\ write_nm_conf_finish(netdefs, NULL, o1).udev_rules
                 = write_nm_conf_finish(netdefs, NULL, o2).udev_rules

\* the percent-escaped form of each SSID of the input domain
EscapedSsid(ssid) ==
    CASE ssid = <<"b">> -> <<"b">>
      [] ssid = <<"b", "-", "b">> -> <<"b", "-", "b">>
      [] ssid = <<"b", " ">> -> <<"b", "%", "2", "0">>

\* write_nm_conf has returned for this definition
Rendered(id) == id \in DOMAIN netdefs /\ id \notin todo /\ cur # id

WifiOf(content) ==
    [ssid |-> Between(content, "\n[wifi]\nssid=", "\nmode="),
     mode |-> Between(content, "\nmode=", "\n"),
     password |-> IF Count(content, "\n[wifi-security]\nkey-mgmt=wpa-psk\npsk=") = 0
                  THEN NULL
                  ELSE Between(content, "\n[wifi-security]\nkey-mgmt=wpa-psk\npsk=", "\n")]

\* C7: for a NetworkManager-owned wifi definition with N access points and
\* no expressiveness error, write_nm_conf makes exactly N writes, one per
\* access point, to N distinct paths ubuntu-network-<id>-<escaped ssid>, and
\* the [wifi] ssid, mode and psk of each artifact are its own access
\* point's.
C7_OneArtifactPerAccessPoint ==
    \A id \in DOMAIN netdefs :
        LET def == netdefs[id]
        IN  (/\ Rendered(id)
             /\ def.backend = BACKEND_NM
             /\ def.type = ND_WIFI
             /\ ~ExpressivenessError(def))
            => /\ Cardinality(WritesOf(id)) = Cardinality(def.access_points)
               /\ \A i, j \in WritesOf(id) : writes[i].path = writes[j].path => i = j
               /\ \A ap \in def.access_points :
                    \E i \in WritesOf(id) :
                        /\ writes[i].path = <<ConnDir>> \o id \o <<"-">> \o EscapedSsid(ap.ssid)
                        /\ Count(writes[i].content, "\n[wifi]\nssid=") = 1
                        /\ WifiOf(writes[i].content) =
                             [ssid |-> ap.ssid, mode |-> <<wifi_mode_str(ap.mode)>>,
                              password |-> ap.password]

C7_Witness ==
    \E id \in DOMAIN netdefs :
        /\ Rendered(id)
        /\ netdefs[id].type = ND_WIFI
        /\ Cardinality(netdefs[id].access_points) >= 2
        /\ Cardinality(WritesOf(id)) = Cardinality(netdefs[id].access_points)
        /\ \E ap \in netdefs[id].access_points : ap.ssid = <<"b", " ">>
        /\ \E x, y \in netdefs[id].access_points :
                x.password # y.password /\ x.mode # y.mode

\* C8: every connection artifact is written under mask 077, and outside a
\* connection-artifact write the mask is the ambient one, on every exit path
\* of the write, a failed write included.
C8_MaskScopedToWrite ==
    /\ \A i \in DOMAIN writes : writes[i].mask = RestrictiveMask
    /\ pc = "writing" => umask = RestrictiveMask
    /\ pc # "writing" => umask = ambient

\* the access point an artifact was rendered for
ApOf(w) == CHOOSE ap \in netdefs[w.def].access_points : ap.ssid = w.ssid

\* C9: the artifact of an access point in access-point mode has exactly one
\* [ipv4] section, with method=shared, whatever dhcp4 is, and a
\* [wifi-security] section with the password if there is one.
C9_AccessPointIpv4Shared ==
    \A i \in DOMAIN writes :
        (writes[i].ssid # NULL /\ ApOf(writes[i]).mode = WIFI_MODE_AP)
        => /\ Count(writes[i].content, "\n[ipv4]\nmethod=shared\n") = 1
           /\ Count(writes[i].content, "\n[ipv4]\nmethod=auto\n") = 0
           /\ ApOf(writes[i]).password # NULL =>
                WifiOf(writes[i].content).password = ApOf(writes[i]).password

\* C10: over a run no connection artifact overwrites another: two writes
\* never go to the same path.
C10_NoArtifactOverwritten ==
    \A i, j \in DOMAIN writes : writes[i].path = writes[j].path => i = j

====
